---- MODULE Spec2Model ----
(***************************************************************************)
(* Cart / order consistency and the checkout / payment state machine of    *)
(* the korichuko storefront (store/views.py, store/models.py) together     *)
(* with the staff override adminpanel.views.order_toggle_completed and     *)
(* the staff product forms (adminpanel ProductCreateView/ProductUpdateView).*)
(* The payment gateway keeps the orders that checkout creates on it.       *)
(*                                                                         *)
(* The relational store is the shared state.  Every request is handled by  *)
(* a worker; one step of a worker is one ORM query of the handler (the     *)
(* project runs in autocommit mode, no ATOMIC_REQUESTS, no transaction     *)
(* block), so concurrent requests interleave between queries.              *)
(***************************************************************************)
EXTENDS Integers, Sequences, FiniteSets, TLC

\* ------------------------------------------------------------------ bounds
MaxRequests == 2      \* requests started in one behaviour
MaxInitQty == 2       \* largest quantity of an item in an initial store

\* ------------------------------------------------------------- principals
Users == {"u1", "u2"}            \* authenticated customers
Anonymous == "anon"              \* request.user.is_authenticated = False
Staff == "staff"                 \* a user with is_staff = True
Products == {"p1", "p2"}         \* rows of store_product in the initial store
NewProduct == "p3"               \* the pk the next created Product gets
MissingProduct == "p0"           \* a pk with no Product row
Workers == {"w1", "w2"}          \* request handlers running concurrently

VARIABLES
    products,      \* store_product:   pk -> [regular_price, sale_price]
    orders,        \* store_order:     id -> [user, completed]
    items,         \* store_orderitem: id -> [order, product, quantity]
    nextOrderId,   \* AUTO_INCREMENT of store_order
    nextItemId,    \* AUTO_INCREMENT of store_orderitem
    req,           \* worker -> the request it handles and its local variables
    started,       \* number of requests started so far
    q0,            \* history: the quantity of item 1 in the initial store (0: none)
    orders0,       \* history: store_order in the initial store
    rp_orders      \* the gateway's orders: id -> [amount, order]; order is the
                   \* store order whose checkout created it (its callback_url)

vars == <<products, orders, items, nextOrderId, nextItemId, req, started, q0, orders0, rp_orders>>
db == <<products, orders, items, nextOrderId, nextItemId>>

\* ---------------------------------------------------------------- helpers
Max(a, b) == IF a >= b THEN a ELSE b

NoOrder == [id |-> 0, user |-> "", completed |-> FALSE]
NoItem == [id |-> 0, order |-> 0, product |-> "", quantity |-> 0]
NoQty == <<"None">>              \* request.POST.get("quantity") is None
NoCallback == [rp_order |-> 0, rp_payment |-> 0, signature |-> 0]

\* Order.objects.filter(user=u, completed=False)
OpenOrders(u) == {o \in DOMAIN orders : orders[o].user = u /\ ~orders[o].completed}

\* OrderItem.objects.filter(order=o, product=p)
ItemsOf(o, p) == {i \in DOMAIN items : items[i].order = o /\ items[i].product = p}

\* order.items (related_name="items")
OrderItems(o) == {i \in DOMAIN items : items[i].order = o}

\* OrderItem filter(pk=i, order__user=u, order__completed=False)
OwnOpenItem(i, u) ==
    /\ i \in DOMAIN items
    /\ items[i].order \in DOMAIN orders
    /\ orders[items[i].order].user = u
    /\ ~orders[items[i].order].completed

OrderRow(o) == [id |-> o, user |-> orders[o].user, completed |-> orders[o].completed]
ItemRow(i) == [id |-> i, order |-> items[i].order, product |-> items[i].product,
               quantity |-> items[i].quantity]

\* ------------------------------------------------------------------ prices
\* A Decimal with two decimal places (regular_price, sale_price, every sum of
\* them) is held as the integer number of hundredths.  A nullable column is
\* held as a tuple: <<>> is NULL / None, <<v>> is the value v.
RECURSIVE SumOver(_, _)
SumOver(f, S) ==
    IF S = {} THEN 0
    ELSE LET x == CHOOSE y \in S : TRUE IN f[x] + SumOver(f, S \ {x})

\* mutant: "self.sale_price or self.regular_price": a sale price of 0.00 is
\* taken for a missing one
display_price_falsy(p) ==
    IF products[p].sale_price # <<>> /\ products[p].sale_price[1] # 0
    THEN products[p].sale_price
    ELSE <<products[p].regular_price>>

\* Product.display_price: sale_price if it is not None, else regular_price
display_price(p) ==
    IF products[p].sale_price # <<>> THEN products[p].sale_price
    ELSE <<products[p].regular_price>>

\* (x or Decimal("0.00")): None and a zero Decimal are falsy
OrZero(x) == IF x = <<>> \/ x[1] = 0 THEN 0 ELSE x[1]

\* OrderItem.get_total_price()
get_total_price(i) == OrZero(display_price(items[i].product)) * items[i].quantity

\* Order.total_price: sum(... for item in self.items.all()); sum(()) is 0
total_price(o) ==
    SumOver([i \in OrderItems(o) |->
                OrZero(display_price(items[i].product)) * items[i].quantity],
            OrderItems(o))

\* order.items.aggregate(total=Sum("quantity"))["total"] or 0
cart_count(o) ==
    LET total == IF OrderItems(o) = {} THEN <<>>
                 ELSE <<SumOver([i \in OrderItems(o) |-> items[i].quantity],
                                OrderItems(o))>> IN
    OrZero(total)

\* int(d) of a Decimal d: the digits after the point are dropped (truncation
\* toward zero); h is d in hundredths
DecimalToInt(h) == IF h >= 0 THEN h \div 100 ELSE 0 - ((0 - h) \div 100)

\* mutant: int(order.total_price), the factor 100 left out
amount_paise_unscaled(o) == DecimalToInt(total_price(o))

\* amount_paise = int(order.total_price * 100)
amount_paise(o) == DecimalToInt(total_price(o) * 100)

\* ------------------------------------------------- int(qty) of the request
Digits == {"0", "1", "2", "3", "4", "5", "6", "7", "8", "9"}

DigitVal(c) ==
    CASE c = "0" -> 0 [] c = "1" -> 1 [] c = "2" -> 2 [] c = "3" -> 3 [] c = "4" -> 4
      [] c = "5" -> 5 [] c = "6" -> 6 [] c = "7" -> 7 [] c = "8" -> 8 [] c = "9" -> 9

RECURSIVE DigitsValue(_)
DigitsValue(s) ==
    IF s = <<>> THEN 0
    ELSE DigitsValue(SubSeq(s, 1, Len(s) - 1)) * 10 + DigitVal(s[Len(s)])

AllDigits(s) == Len(s) >= 1 /\ \A k \in 1..Len(s) : s[k] \in Digits

\* Python int(str): optional sign, then one or more decimal digits;
\* anything else raises ValueError.
IntParses(s) ==
    /\ Len(s) >= 1
    /\ IF s[1] \in {"+", "-"} THEN AllDigits(Tail(s)) ELSE AllDigits(s)

IntOf(s) ==
    IF s[1] = "-" THEN 0 - DigitsValue(Tail(s))
    ELSE IF s[1] = "+" THEN DigitsValue(Tail(s))
    ELSE DigitsValue(s)

\* the quantity strings requests send
QtyStrings == {<<>>, <<"a", "b">>, <<"1", ".", "5">>,
               <<"0">>, <<"-", "2">>, <<"2">>, <<"+", "3">>}

\* ------------------------------------ ProductForm: the two price fields
\* forms.DecimalField.to_python: Decimal(str) of the submitted text, here an
\* optional sign, digits and at most one point with digits on one side at
\* least; then DecimalValidator(max_digits=10, decimal_places=2).  No
\* validator looks at the sign.
PointAt(s) == IF \E k \in 1..Len(s) : s[k] = "."
              THEN CHOOSE k \in 1..Len(s) : s[k] = "." /\ \A j \in 1..(k - 1) : s[j] # "."
              ELSE Len(s) + 1

Unsigned(s) == IF s # <<>> /\ s[1] \in {"+", "-"} THEN Tail(s) ELSE s

WholePart(s) == SubSeq(Unsigned(s), 1, PointAt(Unsigned(s)) - 1)

FractionPart(s) == SubSeq(Unsigned(s), PointAt(Unsigned(s)) + 1, Len(Unsigned(s)))

DecimalParses(s) ==
    /\ \A k \in 1..Len(WholePart(s)) : WholePart(s)[k] \in Digits
    /\ \A k \in 1..Len(FractionPart(s)) : FractionPart(s)[k] \in Digits
    /\ Len(WholePart(s)) + Len(FractionPart(s)) >= 1

\* DecimalValidator: at most 2 decimal places, 10 digits, 8 before the point
DecimalValid(s) ==
    /\ Len(FractionPart(s)) <= 2
    /\ Len(WholePart(s)) + Len(FractionPart(s)) <= 10
    /\ Len(WholePart(s)) <= 8

\* the Decimal in hundredths
DecimalOf(s) ==
    LET f == FractionPart(s)
        cents == IF Len(f) = 0 THEN 0
                 ELSE IF Len(f) = 1 THEN DigitVal(f[1]) * 10
                 ELSE DigitVal(f[1]) * 10 + DigitVal(f[2])
        h == DigitsValue(WholePart(s)) * 100 + cents IN
    IF s[1] = "-" THEN 0 - h ELSE h

\* Field.clean of one price field: [ok, value]; an empty text is None when
\* the field is not required and an error when it is
CleanPrice(s, required) ==
    IF s = <<>> THEN [ok |-> ~required, value |-> <<>>]
    ELSE IF DecimalParses(s) /\ DecimalValid(s) THEN [ok |-> TRUE, value |-> <<DecimalOf(s)>>]
    ELSE [ok |-> FALSE, value |-> <<>>]

NoForm == [regular_price |-> 0, sale_price |-> <<>>]

\* the forms the staff submit: (regular_price, sale_price) as typed
ProductForms ==
    {[regular_price |-> <<"9">>, sale_price |-> <<>>],
     [regular_price |-> <<"9">>, sale_price |-> <<"0">>],
     [regular_price |-> <<"0">>, sale_price |-> <<"2", ".", "5">>],
     [regular_price |-> <<"-", "5">>, sale_price |-> <<>>],
     [regular_price |-> <<>>, sale_price |-> <<"9">>],
     [regular_price |-> <<"9">>, sale_price |-> <<"1", ".", "0", "0", "5">>],
     [regular_price |-> <<"a">>, sale_price |-> <<>>]}

\* form.is_valid(): regular_price is required (blank=False), sale_price is
\* not (null=True, blank=True)
FormIsValid(form) ==
    CleanPrice(form.regular_price, TRUE).ok /\ CleanPrice(form.sale_price, FALSE).ok

\* form.cleaned_data
CleanedData(form) ==
    [regular_price |-> CleanPrice(form.regular_price, TRUE).value[1],
     sale_price |-> CleanPrice(form.sale_price, FALSE).value]

\* ------------------------------------------------------- payment gateway
\* razorpay utility.verify_payment_signature: the signature must be the
\* HMAC of "<razorpay_order_id>|<razorpay_payment_id>" under the key secret.
\* The HMAC is an injective code of the pair; 0 stands for a missing field.
Hmac(o, p) == 100 + 10 * o + p

VerifyPaymentSignature(cb) == cb.signature = Hmac(cb.rp_order, cb.rp_payment)

Callbacks == {[rp_order |-> 1, rp_payment |-> 1, signature |-> Hmac(1, 1)],
              [rp_order |-> 1, rp_payment |-> 1, signature |-> Hmac(1, 2)],
              NoCallback}

\* ---------------------------------------------------------------- requests
Blank ==
    [pc |-> "idle", view |-> "", user |-> "", method |-> "", arg |-> 0,
     product |-> "", action |-> "", qty |-> NoQty, payment_method |-> "",
     cb |-> NoCallback, order |-> NoOrder, item |-> NoItem, created |-> FALSE,
     cleaned |-> NoForm, raised |-> FALSE, ajax |-> FALSE, cart_count |-> 0, total_price |-> 0, amount |-> 0,
     resp |-> ""]

Free(w) == req[w].pc \in {"idle", "done"}

\* a request arrives at a free worker; r is the request after its first query.
\* A response that leaves before the view reads its parameters keeps only
\* the view, the user and the id in the URL.  Workers are interchangeable:
\* requests go to them in turn, and to the other one when the worker whose
\* turn it is still handles a request.
Turn == IF started % 2 = 0 THEN "w1" ELSE "w2"

Begin(w, r) ==
    /\ Free(w)
    /\ w = Turn \/ ~Free(Turn)
    /\ started < MaxRequests
    /\ started' = started + 1
    /\ req' = [req EXCEPT ![w] = r]
    /\ UNCHANGED <<db, q0, orders0, rp_orders>>

Respond(w, resp) == req' = [req EXCEPT ![w].pc = "done", ![w].resp = resp]

Goto(w, pc) == req' = [req EXCEPT ![w].pc = pc]

\* ----------------------------------------------------------- initial store
\* Stores the storefront reaches by requests run one after the other:
\*   nothing yet; u1 added p1 q times; u1 added p1 once and checked out
\*   (cod); u1 and u2 each added p1 once; u1 checked out and opened the cart
\*   page again.
InitStores ==
    {[orders |-> <<>>, items |-> <<>>, q0 |-> 0]}
    \cup {[orders |-> <<[user |-> "u1", completed |-> FALSE]>>,
           items |-> <<[order |-> 1, product |-> "p1", quantity |-> q]>>,
           q0 |-> q] : q \in 1..MaxInitQty}
    \cup {[orders |-> <<[user |-> "u1", completed |-> TRUE]>>,
           items |-> <<[order |-> 1, product |-> "p1", quantity |-> 1]>>,
           q0 |-> 1]}
    \cup {[orders |-> <<[user |-> "u1", completed |-> FALSE],
                        [user |-> "u2", completed |-> FALSE]>>,
           items |-> <<[order |-> 1, product |-> "p1", quantity |-> 1],
                       [order |-> 2, product |-> "p1", quantity |-> 1]>>,
           q0 |-> 1]}
    \cup {[orders |-> <<[user |-> "u1", completed |-> TRUE],
                        [user |-> "u1", completed |-> FALSE]>>,
           items |-> <<[order |-> 1, product |-> "p1", quantity |-> 1]>>,
           q0 |-> 1]}

\* the catalogue: p1 at 100.00 with no sale price, p2 at 60.00 on sale at 50.00
InitProducts ==
    [p \in Products |->
        IF p = "p1" THEN [regular_price |-> 10000, sale_price |-> <<>>]
        ELSE [regular_price |-> 6000, sale_price |-> <<5000>>]]

\* Stores the storefront reaches when the first requests of a user overlap
\* (each of them creates an order): two cart views of u2; two add_to_cart(p1)
\* of u1, each attaching its item to the order it created.
RaceStores ==
    {[orders |-> <<[user |-> "u2", completed |-> FALSE],
                   [user |-> "u2", completed |-> FALSE]>>,
      items |-> <<>>, q0 |-> 0],
     [orders |-> <<[user |-> "u1", completed |-> FALSE],
                   [user |-> "u1", completed |-> FALSE]>>,
      items |-> <<[order |-> 1, product |-> "p1", quantity |-> 1],
                  [order |-> 2, product |-> "p1", quantity |-> 1]>>,
      q0 |-> 1]}

InitAfterRace ==
    /\ products = InitProducts
    /\ \E s \in RaceStores :
         /\ orders = s.orders
         /\ orders0 = s.orders
         /\ items = s.items
         /\ nextOrderId = Len(s.orders) + 1
         /\ nextItemId = Len(s.items) + 1
         /\ q0 = s.q0
    /\ rp_orders = <<>>
    /\ req = [w \in Workers |-> Blank]
    /\ started = 0

\* Stores the storefront reaches after a checkout with payment_method =
\* razorpay rendered its payment page:
\*   u1 added p1 and checked out (gateway order 1 for 100.00);
\*   u1 then paid it (the callback completed order 1) and added p2, which
\*   opened order 2;
\*   u1 added p1, checked out, added p1 again and checked out again (gateway
\*   orders 1 and 2 for the same store order, 100.00 and 200.00).
PayStores ==
    {[orders |-> <<[user |-> "u1", completed |-> FALSE]>>,
      items |-> <<[order |-> 1, product |-> "p1", quantity |-> 1]>>,
      rp_orders |-> <<[amount |-> 10000, order |-> 1]>>, q0 |-> 1],
     [orders |-> <<[user |-> "u1", completed |-> TRUE],
                   [user |-> "u1", completed |-> FALSE]>>,
      items |-> <<[order |-> 1, product |-> "p1", quantity |-> 1],
                  [order |-> 2, product |-> "p2", quantity |-> 1]>>,
      rp_orders |-> <<[amount |-> 10000, order |-> 1]>>, q0 |-> 1],
     [orders |-> <<[user |-> "u1", completed |-> FALSE]>>,
      items |-> <<[order |-> 1, product |-> "p1", quantity |-> 2]>>,
      rp_orders |-> <<[amount |-> 10000, order |-> 1],
                      [amount |-> 20000, order |-> 1]>>, q0 |-> 2]}

InitAfterCheckout ==
    /\ products = InitProducts
    /\ \E s \in PayStores :
         /\ orders = s.orders
         /\ orders0 = s.orders
         /\ items = s.items
         /\ nextOrderId = Len(s.orders) + 1
         /\ nextItemId = Len(s.items) + 1
         /\ q0 = s.q0
         /\ rp_orders = s.rp_orders
    /\ req = [w \in Workers |-> Blank]
    /\ started = 0

Init ==
    /\ products = InitProducts
    /\ \E s \in InitStores :
         /\ orders = s.orders
         /\ orders0 = s.orders
         /\ items = s.items
         /\ nextOrderId = Len(s.orders) + 1
         /\ nextItemId = Len(s.items) + 1
         /\ q0 = s.q0
    /\ rp_orders = <<>>
    /\ req = [w \in Workers |-> Blank]
    /\ started = 0

TypeOK ==
    /\ DOMAIN orders \subseteq 1..(nextOrderId - 1)
    /\ DOMAIN items \subseteq 1..(nextItemId - 1)
    /\ \A i \in DOMAIN items : items[i].order \in DOMAIN orders
    /\ \A i \in DOMAIN items : items[i].product \in DOMAIN products
    /\ DOMAIN products \subseteq Products \cup {NewProduct}
    /\ started \in 0..MaxRequests
    /\ Len(rp_orders) <= MaxRequests + 2
    /\ \A k \in DOMAIN rp_orders : rp_orders[k].order \in DOMAIN orders
    /\ \A i \in DOMAIN items : items[i].quantity \in 0..(MaxInitQty + MaxRequests + 3)

\* --------------------------------------------- @login_required / 401 branch
Views == {"cart", "add_to_cart", "remove_from_cart", "update_cart_quantity",
          "checkout", "paymenthandler"}

\* an unauthenticated request is sent to the login page (add_to_cart: or
\* answered 401) before the view touches the store
LoginRequired(w, v) ==
    Begin(w, [Blank EXCEPT !.view = v, !.user = Anonymous, !.pc = "done",
                           !.resp = "login"])

\* ------------------------------------------ _get_or_create_open_order(user)
\* Order.objects.get(user=user, completed=False): one row is returned, no row
\* raises DoesNotExist (caught, the order is created by the next query), two
\* or more rows raise MultipleObjectsReturned (not caught: the request fails).
\* r is the request so far; the result is the request after the query.
AfterOrder(r) ==
    IF r.view = "cart" THEN [r EXCEPT !.pc = "done", !.resp = "ok"]
    ELSE [r EXCEPT !.pc = "item_get"]

\* mutant: Order.objects.get(user=user), the completed flag not looked at
GetOpenOrderAnyState(r) ==
    LET open == {o \in DOMAIN orders : orders[o].user = r.user} IN
    IF open = {} THEN [r EXCEPT !.pc = "create_order"]
    ELSE IF Cardinality(open) = 1
    THEN AfterOrder([r EXCEPT !.order = OrderRow(CHOOSE o \in open : TRUE)])
    ELSE [r EXCEPT !.pc = "done", !.resp = "error"]

GetOpenOrder(r) ==
    LET open == OpenOrders(r.user) IN
    IF open = {} THEN [r EXCEPT !.pc = "create_order"]
    ELSE IF Cardinality(open) = 1
    THEN AfterOrder([r EXCEPT !.order = OrderRow(CHOOSE o \in open : TRUE)])
    ELSE [r EXCEPT !.pc = "done", !.resp = "error"]

\* ------------------------------- store/utils.py get_or_create_open_order
\* No view calls this function (cart and add_to_cart call
\* _get_or_create_open_order above).  qs.first() of the user's open orders
\* by id: the order it keeps (0: there is none and one is created)
RepairKeeps(u) ==
    IF OpenOrders(u) = {} THEN 0
    ELSE CHOOSE o \in OpenOrders(u) : \A x \in OpenOrders(u) : o <= x

\* store_order after its filter(user, completed=False).exclude(pk).delete()
RepairedOrders(u) ==
    [o \in DOMAIN orders \ (OpenOrders(u) \ {RepairKeeps(u)}) |-> orders[o]]

\* Order.objects.create(user=user, completed=False)
CreateOpenOrder(w) ==
    /\ req[w].pc = "create_order"
    /\ orders' = (nextOrderId :> [user |-> req[w].user, completed |-> FALSE]) @@ orders
    /\ nextOrderId' = nextOrderId + 1
    /\ req' = [req EXCEPT ![w] = AfterOrder([req[w] EXCEPT !.order =
                  [id |-> nextOrderId, user |-> req[w].user, completed |-> FALSE]])]
    /\ UNCHANGED <<products, items, nextItemId, started, q0, orders0, rp_orders>>

\* ------------------------------------------------------------ cart(request)
CartStart(w, u) ==
    Begin(w, GetOpenOrder([Blank EXCEPT !.view = "cart", !.user = u]))

\* -------------------------------------------------- add_to_cart(request, pk)
\* product = get_object_or_404(Product, pk=pk)
AddStart(w, u, p) ==
    Begin(w, IF p \in DOMAIN products
             THEN [Blank EXCEPT !.view = "add_to_cart", !.user = u, !.product = p,
                                !.pc = "get_order"]
             ELSE [Blank EXCEPT !.view = "add_to_cart", !.user = u, !.product = p,
                                !.pc = "done", !.resp = "notfound"])

\* order = _get_or_create_open_order(request.user)
AddGetOrder(w) ==
    /\ req[w].pc = "get_order"
    /\ req' = [req EXCEPT ![w] = GetOpenOrder(req[w])]
    /\ UNCHANGED <<db, started, q0, orders0, rp_orders>>

\* mutant: create() in place of get_or_create(): the item is never looked up
AddGetItemAlwaysCreate(w) ==
    /\ req[w].pc = "item_get"
    /\ Goto(w, "item_create")
    /\ UNCHANGED <<db, started, q0, orders0, rp_orders>>

\* OrderItem.objects.get_or_create(order=order, product=product, ...): the get
AddGetItem(w) ==
    /\ req[w].pc = "item_get"
    /\ LET found == ItemsOf(req[w].order.id, req[w].product) IN
         IF found = {} THEN Goto(w, "item_create")
         ELSE IF Cardinality(found) = 1
         THEN req' = [req EXCEPT ![w].item = ItemRow(CHOOSE i \in found : TRUE),
                                 ![w].pc = "item_update"]
         ELSE Respond(w, "error")
    /\ UNCHANGED <<db, started, q0, orders0, rp_orders>>

\* get_or_create: the create, with defaults={"quantity": 1}; created = True
AddCreateItem(w) ==
    /\ req[w].pc = "item_create"
    /\ LET row == [order |-> req[w].order.id, product |-> req[w].product, quantity |-> 1] IN
         /\ items' = (nextItemId :> row) @@ items
         /\ req' = [req EXCEPT ![w].item = [id |-> nextItemId, order |-> row.order,
                                            product |-> row.product, quantity |-> 1],
                               ![w].created = TRUE,
                               ![w].pc = "cart_count"]
    /\ nextItemId' = nextItemId + 1
    /\ UNCHANGED <<products, orders, nextOrderId, started, q0, orders0, rp_orders>>

\* mutant: item.quantity += 1; item.save() in place of the F() update
AddUpdateItemReadModifyWrite(w) ==
    /\ req[w].pc = "item_update"
    /\ items' = (req[w].item.id :> [order |-> req[w].item.order,
                                    product |-> req[w].item.product,
                                    quantity |-> req[w].item.quantity + 1]) @@ items
    /\ Goto(w, "cart_count")
    /\ UNCHANGED <<products, orders, nextOrderId, nextItemId, started, q0, orders0, rp_orders>>

\* if not created:
\*     OrderItem.objects.filter(pk=item.pk).update(quantity=F("quantity") + 1)
AddUpdateItem(w) ==
    /\ req[w].pc = "item_update"
    /\ LET i == req[w].item.id IN
         IF i \in DOMAIN items
         THEN items' = [items EXCEPT ![i].quantity = @ + 1]
         ELSE items' = items
    /\ Goto(w, "cart_count")
    /\ UNCHANGED <<products, orders, nextOrderId, nextItemId, started, q0, orders0, rp_orders>>

\* ------------------------- _json_cart_payload(order, request, message)
\* remove_from_cart and update_cart_quantity build the payload for an
\* XMLHttpRequest request (ajax) and redirect to the cart page otherwise.
\* The X-Requested-With header enters the request's state where the view
\* reads it, after its write.
AfterWrite(r, ajax) ==
    IF ajax THEN [r EXCEPT !.ajax = TRUE, !.pc = "cart_count"]
    ELSE [r EXCEPT !.pc = "done", !.resp = "ok"]

\* mutant: the payload built from the order object as it was looked up
JsonCartPayloadCountCached(w) ==
    /\ req[w].pc = "cart_count"
    /\ req' = [req EXCEPT ![w].cart_count = req[w].item.quantity,
                          ![w].pc = "cart_total"]
    /\ UNCHANGED <<db, started, q0, orders0, rp_orders>>

\* cart_count = order.items.aggregate(total=Sum("quantity"))["total"] or 0:
\* a query of its own, run after the write of the view
JsonCartPayloadCount(w) ==
    /\ req[w].pc = "cart_count"
    /\ req' = [req EXCEPT ![w].cart_count = cart_count(req[w].item.order),
                          ![w].pc = "cart_total"]
    /\ UNCHANGED <<db, started, q0, orders0, rp_orders>>

\* total_price = float(order.total_price): the items and their products are
\* read again; the payload holds the float that prints as this Decimal
JsonCartPayloadTotal(w) ==
    /\ req[w].pc = "cart_total"
    /\ req' = [req EXCEPT ![w].total_price = total_price(req[w].item.order),
                          ![w].pc = "done", ![w].resp = "ok"]
    /\ UNCHANGED <<db, started, q0, orders0, rp_orders>>

\* -------------------------------------- remove_from_cart(request, item_id)
\* mutant: the lookup without order__user=request.user
RemoveStartAnyOwner(w, u, i) ==
    Begin(w, IF i \in DOMAIN items /\ ~orders[items[i].order].completed
             THEN [Blank EXCEPT !.view = "remove_from_cart", !.user = u, !.arg = i,
                                !.item = ItemRow(i), !.order = OrderRow(items[i].order),
                                !.pc = "item_delete"]
             ELSE [Blank EXCEPT !.view = "remove_from_cart", !.user = u, !.arg = i,
                                !.pc = "done", !.resp = "notfound"])

\* item = get_object_or_404(OrderItem, pk=item_id, order__user=request.user,
\*                          order__completed=False)
RemoveStart(w, u, i) ==
    Begin(w, IF OwnOpenItem(i, u)
             THEN [Blank EXCEPT !.view = "remove_from_cart", !.user = u, !.arg = i,
                                !.item = ItemRow(i), !.order = OrderRow(items[i].order),
                                !.pc = "item_delete"]
             ELSE [Blank EXCEPT !.view = "remove_from_cart", !.user = u, !.arg = i,
                                !.pc = "done", !.resp = "notfound"])

\* item.delete(): DELETE ... WHERE id = item.pk
RemoveDelete(w) ==
    /\ req[w].pc = "item_delete"
    /\ items' = [i \in DOMAIN items \ {req[w].item.id} |-> items[i]]
    /\ \E ajax \in BOOLEAN : req' = [req EXCEPT ![w] = AfterWrite(req[w], ajax)]
    /\ UNCHANGED <<products, orders, nextOrderId, nextItemId, started, q0, orders0, rp_orders>>

\* ---------------------------------- update_cart_quantity(request, item_id)
\* what a request sends: the method, POST["action"] and POST["quantity"]
UpdateInputs ==
    {[method |-> "GET", action |-> "", qty |-> NoQty]}
    \cup {[method |-> "POST", action |-> a, qty |-> NoQty] :
            a \in {"increase", "decrease", ""}}
    \cup {[method |-> "POST", action |-> a, qty |-> s] :
            a \in {"increase", "decrease", ""}, s \in {t \in QtyStrings : ~IntParses(t)}}
    \cup {[method |-> "POST", action |-> "", qty |-> s] :
            s \in {t \in QtyStrings : IntParses(t)}}

UpdateStart(w, u, i, inp, ajax) ==
    Begin(w, LET r == [Blank EXCEPT !.view = "update_cart_quantity", !.user = u,
                                    !.arg = i] IN
             IF OwnOpenItem(i, u)
             THEN LET f == [r EXCEPT !.item = ItemRow(i), !.method = inp.method,
                                     !.action = inp.action, !.qty = inp.qty] IN
                  IF inp.method = "POST" THEN [f EXCEPT !.pc = "item_save"]
                  ELSE AfterWrite(f, ajax)
             ELSE [r EXCEPT !.pc = "done", !.resp = "notfound"])

\* mutant: item.quantity - 1 without max(1, ...)
NewQuantityNoClamp(r) ==
    IF r.qty # NoQty
    THEN IF IntParses(r.qty) THEN Max(1, IntOf(r.qty)) ELSE r.item.quantity
    ELSE IF r.action = "increase" THEN r.item.quantity + 1
    ELSE IF r.action = "decrease" THEN r.item.quantity - 1
    ELSE r.item.quantity

\* mutant: "if action ==" in place of "elif action ==": after a ValueError
\* the action of the same request is applied
NewQuantityFallThrough(r) ==
    IF r.qty # NoQty /\ IntParses(r.qty) THEN Max(1, IntOf(r.qty))
    ELSE IF r.action = "increase" THEN r.item.quantity + 1
    ELSE IF r.action = "decrease" THEN Max(1, r.item.quantity - 1)
    ELSE r.item.quantity

\* lines 231-239: the quantity the handler assigns to item.quantity
NewQuantity(r) ==
    IF r.qty # NoQty
    THEN IF IntParses(r.qty) THEN Max(1, IntOf(r.qty)) ELSE r.item.quantity
    ELSE IF r.action = "increase" THEN r.item.quantity + 1
    ELSE IF r.action = "decrease" THEN Max(1, r.item.quantity - 1)
    ELSE r.item.quantity

\* item.save(): UPDATE of every column WHERE id = item.pk; when no row has
\* that id any more, Model.save() falls back to INSERT with the same id
UpdateSave(w) ==
    /\ req[w].pc = "item_save"
    /\ items' = (req[w].item.id :> [order |-> req[w].item.order,
                                    product |-> req[w].item.product,
                                    quantity |-> NewQuantity(req[w])]) @@ items
    /\ \E ajax \in BOOLEAN :
         req' = [req EXCEPT ![w] = AfterWrite([req[w] EXCEPT !.item.quantity =
                                                   NewQuantity(req[w])], ajax)]
    /\ UNCHANGED <<products, orders, nextOrderId, nextItemId, started, q0, orders0, rp_orders>>

\* -------------------------------------------------------- checkout(request)
CheckoutInputs ==
    {[method |-> "GET", payment_method |-> ""],
     [method |-> "POST", payment_method |-> "cod"],
     [method |-> "POST", payment_method |-> "razorpay"],
     [method |-> "POST", payment_method |-> ""]}

\* mutant: the checkout page of a GET request rendered before the order is
\* looked up
CheckoutStartPageFirst(w, u, inp) ==
    Begin(w, LET r == [Blank EXCEPT !.view = "checkout", !.user = u,
                                    !.method = inp.method,
                                    !.payment_method = inp.payment_method]
                 open == OpenOrders(u) IN
             IF inp.method = "GET" THEN [r EXCEPT !.pc = "done", !.resp = "checkout_page"]
             ELSE IF open = {} THEN [r EXCEPT !.pc = "done", !.resp = "notfound"]
             ELSE IF Cardinality(open) > 1 THEN [r EXCEPT !.pc = "done", !.resp = "error"]
             ELSE LET f == [r EXCEPT !.order = OrderRow(CHOOSE x \in open : TRUE)] IN
                  IF inp.payment_method = "cod" THEN [f EXCEPT !.pc = "order_save"]
                  ELSE IF inp.payment_method = "razorpay"
                  THEN [f EXCEPT !.pc = "gateway_order"]
                  ELSE [f EXCEPT !.pc = "done", !.resp = "checkout_page"])

\* order = get_object_or_404(Order, user=request.user, completed=False):
\* Http404 on no row, MultipleObjectsReturned (uncaught) on several
CheckoutStart(w, u, inp) ==
    Begin(w, LET r == [Blank EXCEPT !.view = "checkout", !.user = u,
                                    !.method = inp.method,
                                    !.payment_method = inp.payment_method]
                 open == OpenOrders(u) IN
             IF open = {} THEN [r EXCEPT !.pc = "done", !.resp = "notfound"]
             ELSE IF Cardinality(open) > 1 THEN [r EXCEPT !.pc = "done", !.resp = "error"]
             ELSE LET f == [r EXCEPT !.order = OrderRow(CHOOSE x \in open : TRUE)] IN
                  IF inp.method = "POST" /\ inp.payment_method = "cod"
                  THEN [f EXCEPT !.pc = "order_save"]
                  ELSE IF inp.method = "POST" /\ inp.payment_method = "razorpay"
                  THEN [f EXCEPT !.pc = "gateway_order"]
                  ELSE [f EXCEPT !.pc = "done", !.resp = "checkout_page"])

\* mutant: order.completed = not <the stored flag> in place of = True
CheckoutCodFlip(w) ==
    /\ req[w].pc = "order_save"
    /\ orders' = [orders EXCEPT ![req[w].order.id].completed = ~@]
    /\ req' = [req EXCEPT ![w].order.completed = TRUE, ![w].pc = "done",
                          ![w].resp = "order_success"]
    /\ UNCHANGED <<products, items, nextOrderId, nextItemId, started, q0, orders0, rp_orders>>

\* order.completed = True; order.save()
CheckoutCod(w) ==
    /\ req[w].pc = "order_save"
    /\ orders' = (req[w].order.id :> [user |-> req[w].order.user, completed |-> TRUE])
                 @@ orders
    /\ req' = [req EXCEPT ![w].order.completed = TRUE, ![w].pc = "done",
                          ![w].resp = "order_success"]
    /\ UNCHANGED <<products, items, nextOrderId, nextItemId, started, q0, orders0, rp_orders>>

\* amount_paise = int(order.total_price * 100), from the items and prices as
\* they are now; razorpay_client.order.create(amount=amount_paise, ...)
\* creates the gateway's order and the payment page is rendered with
\* razorpay_amount = amount_paise and the callback_url of this order, or the
\* gateway call raises and the request fails; the store is not written
CheckoutRazorpay(w) ==
    /\ req[w].pc = "gateway_order"
    /\ \E raises \in BOOLEAN :
         /\ req' = [req EXCEPT ![w].amount = amount_paise(req[w].order.id),
                               ![w].raised = raises, ![w].pc = "done",
                               ![w].resp = IF raises THEN "error" ELSE "payment_page"]
         /\ rp_orders' = IF raises THEN rp_orders
                         ELSE Append(rp_orders,
                                     [amount |-> amount_paise(req[w].order.id),
                                      order |-> req[w].order.id])
    /\ UNCHANGED <<db, started, q0, orders0>>

\* ------------------------------------------ paymenthandler(request, order_id)
\* if request.method != "POST": HttpResponseBadRequest("Invalid Request")
\* order = get_object_or_404(Order, pk=order_id, user=request.user,
\*                           completed=False)
PaymentStart(w, u, o, method, cb) ==
    Begin(w, LET r == [Blank EXCEPT !.view = "paymenthandler", !.user = u, !.arg = o] IN
             IF method # "POST"
             THEN [r EXCEPT !.method = method, !.pc = "done", !.resp = "invalid_request"]
             ELSE IF o \in OpenOrders(u)
             THEN [r EXCEPT !.order = OrderRow(o), !.method = method, !.cb = cb,
                            !.pc = "verify"]
             ELSE [r EXCEPT !.pc = "done", !.resp = "notfound"])

\* mutant: order.completed = True; order.save() moved above the verification
PaymentVerifySaveFirst(w) ==
    /\ req[w].pc = "verify"
    /\ orders' = (req[w].order.id :> [user |-> req[w].order.user, completed |-> TRUE])
                 @@ orders
    /\ \E raises \in BOOLEAN :
         IF ~raises /\ VerifyPaymentSignature(req[w].cb)
         THEN req' = [req EXCEPT ![w].order.completed = TRUE, ![w].pc = "done",
                                 ![w].resp = "order_success"]
         ELSE req' = [req EXCEPT ![w].raised = raises, ![w].pc = "done",
                                 ![w].resp = "payment_failed"]
    /\ UNCHANGED <<products, items, nextOrderId, nextItemId, started, q0, orders0, rp_orders>>

\* mutant: order.save() left out after order.completed = True
PaymentVerifyNoSave(w) ==
    /\ req[w].pc = "verify"
    /\ \E raises \in BOOLEAN :
         IF ~raises /\ VerifyPaymentSignature(req[w].cb)
         THEN req' = [req EXCEPT ![w].order.completed = TRUE, ![w].pc = "done",
                                 ![w].resp = "order_success"]
         ELSE req' = [req EXCEPT ![w].raised = raises, ![w].pc = "done",
                                 ![w].resp = "payment_failed"]
    /\ UNCHANGED <<db, started, q0, orders0, rp_orders>>

\* try: client construction and verify_payment_signature(params_dict), then
\* order.completed = True; order.save(); except Exception: 400
\* (raises: the razorpay client itself raised inside the try block)
PaymentVerify(w) ==
    /\ req[w].pc = "verify"
    /\ \E raises \in BOOLEAN :
         IF ~raises /\ VerifyPaymentSignature(req[w].cb)
         THEN /\ orders' = (req[w].order.id :> [user |-> req[w].order.user,
                                                completed |-> TRUE]) @@ orders
              /\ req' = [req EXCEPT ![w].order.completed = TRUE, ![w].pc = "done",
                                    ![w].resp = "order_success"]
         ELSE /\ orders' = orders
              /\ req' = [req EXCEPT ![w].raised = raises, ![w].pc = "done",
                                    ![w].resp = "payment_failed"]
    /\ UNCHANGED <<products, items, nextOrderId, nextItemId, started, q0, orders0, rp_orders>>

\* ------------------------- adminpanel: order_toggle_completed(request, pk)
\* @staff_member_required: anyone else is sent to the admin login
StaffRequired(w, u) ==
    Begin(w, [Blank EXCEPT !.view = "order_toggle_completed", !.user = u,
                           !.pc = "done", !.resp = "login"])

\* order = get_object_or_404(Order, pk=pk)
ToggleStart(w, o) ==
    Begin(w, LET r == [Blank EXCEPT !.view = "order_toggle_completed",
                                    !.user = Staff, !.arg = o] IN
             IF o \in DOMAIN orders
             THEN [r EXCEPT !.order = OrderRow(o), !.pc = "toggle_save"]
             ELSE [r EXCEPT !.pc = "done", !.resp = "notfound"])

\* mutant: order.completed = True ("mark as completed") in place of the flip
ToggleSaveComplete(w) ==
    /\ req[w].pc = "toggle_save"
    /\ orders' = (req[w].order.id :> [user |-> req[w].order.user,
                                      completed |-> TRUE]) @@ orders
    /\ req' = [req EXCEPT ![w].order.completed = TRUE,
                          ![w].pc = "done", ![w].resp = "ok"]
    /\ UNCHANGED <<products, items, nextOrderId, nextItemId, started, q0, orders0, rp_orders>>

\* order.completed = not order.completed; order.save()
ToggleSave(w) ==
    /\ req[w].pc = "toggle_save"
    /\ orders' = (req[w].order.id :> [user |-> req[w].order.user,
                                      completed |-> ~req[w].order.completed]) @@ orders
    /\ req' = [req EXCEPT ![w].order.completed = ~req[w].order.completed,
                          ![w].pc = "done", ![w].resp = "ok"]
    /\ UNCHANGED <<products, items, nextOrderId, nextItemId, started, q0, orders0, rp_orders>>

\* -------------------------- adminpanel: ProductCreateView / ProductUpdateView
\* StaffRequiredMixin: anyone else is sent to the admin login (or refused)
ProductStaffRequired(w, u, v) ==
    Begin(w, [Blank EXCEPT !.view = v, !.user = u, !.pc = "done", !.resp = "login"])

\* ProductUpdateView.post: self.get_object() (404 when there is no such
\* row), then form.is_valid(); an invalid form is shown again with its errors
ProductUpdateStart(w, p, form) ==
    Begin(w, LET r == [Blank EXCEPT !.view = "product_update", !.user = Staff,
                                    !.method = "POST", !.product = p] IN
             IF p \notin DOMAIN products THEN [r EXCEPT !.pc = "done", !.resp = "notfound"]
             ELSE IF ~FormIsValid(form) THEN [r EXCEPT !.pc = "done", !.resp = "form_invalid"]
             ELSE [r EXCEPT !.cleaned = CleanedData(form), !.pc = "product_save"])

\* form_valid: form.save() writes the cleaned fields of the row
ProductUpdateSave(w) ==
    /\ req[w].pc = "product_save"
    /\ products' = (req[w].product :> req[w].cleaned) @@ products
    /\ Respond(w, "ok")
    /\ UNCHANGED <<orders, items, nextOrderId, nextItemId, started, q0, orders0, rp_orders>>

\* ProductCreateView.post: form.is_valid(); the catalogue of the model has
\* room for one more product
ProductCreateStart(w, form) ==
    /\ NewProduct \notin DOMAIN products
    /\ \A v \in Workers : req[v].pc # "product_insert"
    /\ Begin(w, LET r == [Blank EXCEPT !.view = "product_create", !.user = Staff,
                                    !.method = "POST"] IN
                IF ~FormIsValid(form) THEN [r EXCEPT !.pc = "done", !.resp = "form_invalid"]
                ELSE [r EXCEPT !.cleaned = CleanedData(form), !.pc = "product_insert"])

\* form_valid: form.save() inserts the row
ProductCreateSave(w) ==
    /\ req[w].pc = "product_insert"
    /\ products' = (NewProduct :> req[w].cleaned) @@ products
    /\ req' = [req EXCEPT ![w].product = NewProduct, ![w].pc = "done", ![w].resp = "ok"]
    /\ UNCHANGED <<orders, items, nextOrderId, nextItemId, started, q0, orders0, rp_orders>>

\* ------------------------------------------------------------ specification
\* update_cart_quantity requests without an explicit quantity
ActionInputs == {inp \in UpdateInputs : inp.qty = NoQty}

\* The parameters a view gets to read: a request whose first lookup fails is
\* answered before its parameters are read, so one parameter value stands for
\* all of them there.
IfFound(found, inputs) == IF found THEN inputs ELSE {CHOOSE x \in inputs : TRUE}

\* the steps that continue a request already started
Continue(w) ==
    \/ CreateOpenOrder(w)
    \/ AddGetOrder(w)
    \/ AddGetItem(w)
    \/ AddCreateItem(w)
    \/ AddUpdateItem(w)
    \/ RemoveDelete(w)
    \/ UpdateSave(w)
    \/ JsonCartPayloadCount(w)
    \/ JsonCartPayloadTotal(w)
    \/ CheckoutCod(w)
    \/ CheckoutRazorpay(w)
    \/ PaymentVerify(w)

\* StoreSpec: every view of the storefront, requests overlapping freely
StoreNext ==
    \E w \in Workers :
        \/ \E v \in Views : LoginRequired(w, v)
        \/ \E u \in Users : CartStart(w, u)
        \/ \E u \in Users, p \in Products \cup {MissingProduct} : AddStart(w, u, p)
        \/ \E u \in Users, i \in 1..nextItemId : RemoveStart(w, u, i)
        \/ \E u \in Users, i \in 1..nextItemId :
               \E inp \in IfFound(OwnOpenItem(i, u), ActionInputs) :
                   \E ajax \in IfFound(OwnOpenItem(i, u) /\ inp.method = "GET", BOOLEAN) :
                       UpdateStart(w, u, i, inp, ajax)
        \/ \E u \in Users :
               \E inp \in CheckoutInputs : CheckoutStart(w, u, inp)
        \/ \E u \in Users, o \in 1..nextOrderId, m \in {"GET", "POST"} :
               \E cb \in IfFound(m = "POST" /\ o \in OpenOrders(u), Callbacks) :
                   PaymentStart(w, u, o, m, cb)
        \/ Continue(w)

StoreSpec == Init /\ [][StoreNext]_vars

\* AfterRaceSpec: the storefront after first requests of a user overlapped
AfterRaceSpec == InitAfterRace /\ [][StoreNext]_vars

\* PaySpec: the storefront after a checkout created an order on the gateway
PaySpec == InitAfterCheckout /\ [][StoreNext]_vars

\* Spec: the storefront and the staff toggle of the admin panel
StaffNext ==
    \E w \in Workers :
        \/ \E u \in Users \cup {Anonymous} : StaffRequired(w, u)
        \/ \E o \in 1..nextOrderId : ToggleStart(w, o)
        \/ ToggleSave(w)

Next == StoreNext \/ StaffNext

Spec == Init /\ [][Next]_vars

\* CartSpec: the cart views with every form of the quantity parameters
CartNext ==
    \E w \in Workers :
        \/ \E u \in Users, p \in Products : AddStart(w, u, p)
        \/ \E u \in Users, i \in 1..nextItemId : RemoveStart(w, u, i)
        \/ \E u \in Users, i \in 1..nextItemId :
               \E inp \in IfFound(OwnOpenItem(i, u), UpdateInputs) :
                   \E ajax \in IfFound(OwnOpenItem(i, u) /\ inp.method = "GET", BOOLEAN) :
                       UpdateStart(w, u, i, inp, ajax)
        \/ CreateOpenOrder(w)
        \/ AddGetOrder(w)
        \/ AddGetItem(w)
        \/ AddCreateItem(w)
        \/ AddUpdateItem(w)
        \/ RemoveDelete(w)
        \/ UpdateSave(w)
        \/ JsonCartPayloadCount(w)
        \/ JsonCartPayloadTotal(w)

CartSpec == Init /\ [][CartNext]_vars

\* SeqSpec: the cart and checkout requests handled one at a time, none
\* overlapping: a request starts only when no other is being handled
AllFree == \A v \in Workers : Free(v)

SeqNext ==
    \E w \in Workers :
        \/ AllFree /\ \E u \in Users : CartStart(w, u)
        \/ AllFree /\ \E u \in Users, inp \in CheckoutInputs : CheckoutStart(w, u, inp)
        \/ CheckoutCod(w)
        \/ CheckoutRazorpay(w)
        \/ AllFree /\ \E u \in Users, p \in Products : AddStart(w, u, p)
        \/ AllFree /\ \E u \in Users, i \in 1..nextItemId : RemoveStart(w, u, i)
        \/ AllFree /\ \E u \in Users, i \in 1..nextItemId :
                         \E inp \in IfFound(OwnOpenItem(i, u), UpdateInputs) :
                             \E ajax \in IfFound(OwnOpenItem(i, u) /\ inp.method = "GET", BOOLEAN) :
                                 UpdateStart(w, u, i, inp, ajax)
        \/ CreateOpenOrder(w)
        \/ AddGetOrder(w)
        \/ AddGetItem(w)
        \/ AddCreateItem(w)
        \/ AddUpdateItem(w)
        \/ RemoveDelete(w)
        \/ UpdateSave(w)
        \/ JsonCartPayloadCount(w)
        \/ JsonCartPayloadTotal(w)

SeqSpec == Init /\ [][SeqNext]_vars

\* PriceSpec: the staff create and edit products, customers fill carts and
\* check out, one request at a time
PriceNext ==
    \E w \in Workers :
        \/ AllFree /\ \E u \in Users \cup {Anonymous},
                          v \in {"product_create", "product_update"} :
                         ProductStaffRequired(w, u, v)
        \/ AllFree /\ \E p \in Products \cup {NewProduct, MissingProduct} :
                         \E form \in IfFound(p \in DOMAIN products, ProductForms) :
                             ProductUpdateStart(w, p, form)
        \/ AllFree /\ \E form \in ProductForms : ProductCreateStart(w, form)
        \/ ProductUpdateSave(w)
        \/ ProductCreateSave(w)
        \/ AllFree /\ \E u \in Users, p \in DOMAIN products : AddStart(w, u, p)
        \/ AllFree /\ \E u \in Users, inp \in CheckoutInputs : CheckoutStart(w, u, inp)
        \/ CreateOpenOrder(w)
        \/ AddGetOrder(w)
        \/ AddGetItem(w)
        \/ AddCreateItem(w)
        \/ AddUpdateItem(w)
        \/ JsonCartPayloadCount(w)
        \/ JsonCartPayloadTotal(w)
        \/ CheckoutCod(w)
        \/ CheckoutRazorpay(w)

PriceSpec == Init /\ [][PriceNext]_vars

\* ================================================================== claims
\* worker w took the step (its request changed)
StepBy(w) == req'[w] # req[w]

\* the owner of an item row: the user of its order
Owner(i) == orders[items[i].order].user

\* the two requests of the behaviour were add_to_cart of the same product by
\* the same user, and both have been answered
TwoAddsDone(w1, w2) ==
    /\ w1 # w2
    /\ started = 2
    /\ req[w1].pc = "done" /\ req[w2].pc = "done"
    /\ req[w1].view = "add_to_cart" /\ req[w2].view = "add_to_cart"
    /\ req[w1].user = req[w2].user /\ req[w1].user \in Users
    /\ req[w1].product = req[w2].product /\ req[w1].product \in Products

\* item i was created by one of the requests of the behaviour
CreatedHere(i) == \E w \in Workers : req[w].created /\ req[w].item.id = i

NonIntegers == {<<>>, <<"a", "b">>, <<"1", ".", "5">>}

\* ---- C1: in every reachable state every user has at most one open order
\* (completed = False), whatever storefront requests ran and however they
\* overlapped.
AtMostOneOpenOrder == \A u \in Users : Cardinality(OpenOrders(u)) <= 1

\* ---- C2 as stated: a completed order is never brought back to
\* completed = False by any operation, the staff toggle included.
CompletedIsTerminal ==
    [][\A o \in DOMAIN orders :
          orders[o].completed => o \in DOMAIN orders' /\ orders'[o].completed]_vars

\* ---- C2 amended: a completed order stays in the store, and the only step
\* that brings it back to completed = False is the save of the staff's
\* order_toggle_completed on that order; no storefront request reopens it.
ReopenedOnlyByStaffToggle ==
    [][\A o \in DOMAIN orders :
          orders[o].completed =>
             /\ o \in DOMAIN orders'
             /\ \/ orders'[o].completed
                \/ \E w \in Workers :
                      /\ req[w].view = "order_toggle_completed"
                      /\ req[w].pc = "toggle_save"
                      /\ req[w].order.id = o
                      /\ req'[w].pc = "done"]_vars

\* a staff toggle has reopened an order that was completed
ReopenedByStaff ==
    \E w \in Workers :
        /\ req[w].view = "order_toggle_completed"
        /\ req[w].pc = "done" /\ req[w].resp = "ok"
        /\ ~req[w].order.completed
        /\ ~orders[req[w].order.id].completed

\* ---- C3: in every reachable state an order holds at most one OrderItem per
\* product, also when add_to_cart requests for the same product overlap.
OneItemPerProduct ==
    \A o \in DOMAIN orders, p \in Products : Cardinality(ItemsOf(o, p)) <= 1

\* ---- C4: when the user's open order already holds an item for p (quantity
\* q0) and the only two requests are add_to_cart(p) by that user, then in
\* every interleaving both succeed, none creates an item, and the item ends
\* with quantity q0 + 2.
ConcurrentAddsKeepBothIncrements ==
    \A w1, w2 \in Workers :
        TwoAddsDone(w1, w2) =>
            \A i \in DOMAIN items :
                (/\ items[i].product = req[w1].product
                 /\ items[i].order \in OpenOrders(req[w1].user)
                 /\ ~CreatedHere(i))
                => /\ req[w1].resp = "ok" /\ req[w2].resp = "ok"
                   /\ ~req[w1].created /\ ~req[w2].created
                   /\ ItemsOf(items[i].order, items[i].product) = {i}
                   /\ items[i].quantity = q0 + 2

\* both requests read the item before either incremented it, and both
\* increments are in the store
BothAddsRacedOnTheItem ==
    \E w1, w2 \in Workers :
        /\ TwoAddsDone(w1, w2)
        /\ ~req[w1].created /\ ~req[w2].created
        /\ req[w1].item.id = req[w2].item.id
        /\ req[w1].item.quantity = q0 /\ req[w2].item.quantity = q0
        /\ req[w1].item.id \in DOMAIN items
        /\ items[req[w1].item.id].quantity = q0 + 2

\* ---- C5: two add_to_cart(p) requests of one user handled one after the
\* other leave exactly one item for p in the user's open order; its quantity
\* is 2 when the order did not hold p before (the first add created the item
\* with quantity 1, the second incremented it) and q0 + 2 when it did.
AddTwiceInSequence ==
    \A w1, w2 \in Workers :
        TwoAddsDone(w1, w2) =>
            /\ req[w1].resp = "ok" /\ req[w2].resp = "ok"
            /\ Cardinality(OpenOrders(req[w1].user)) = 1
            /\ \A o \in OpenOrders(req[w1].user) :
                  \E i \in DOMAIN items :
                      /\ ItemsOf(o, req[w1].product) = {i}
                      /\ items[i].quantity = IF CreatedHere(i) THEN 2 ELSE q0 + 2
                      /\ ~(req[w1].created /\ req[w2].created)

\* the first add created the item, the second incremented it to 2
SecondAddIncremented ==
    \E w1, w2 \in Workers :
        /\ TwoAddsDone(w1, w2)
        /\ req[w1].created /\ ~req[w2].created
        /\ req[w2].item.id = req[w1].item.id
        /\ req[w2].item.quantity = 1
        /\ items[req[w1].item.id].quantity = 2

\* ---- C6: a paymenthandler request that found the user's open order and
\* whose verification fails (bad signature, missing fields, the gateway
\* client raising) answers "Payment Verification Failed", writes nothing (the
\* order keeps completed = False, items unchanged, so checkout can run on it
\* again), while a POST for an order that is not an open order of the user
\* is answered NotFound.
PaymentFailureKeepsOrderOpen ==
    [][\A w \in Workers :
          /\ (/\ req[w].pc = "verify" /\ req'[w].pc = "done"
              /\ (~VerifyPaymentSignature(req[w].cb) \/ req'[w].raised))
             => /\ req'[w].resp = "payment_failed"
                /\ orders' = orders /\ items' = items
                /\ (req[w].order.id \in OpenOrders(req[w].user)
                      => req[w].order.id \in OpenOrders(req[w].user)')
          /\ (/\ started' # started /\ req'[w].view = "paymenthandler" /\ StepBy(w)
              /\ req'[w].user \in Users /\ req'[w].method # "GET"
              /\ req'[w].arg \notin OpenOrders(req'[w].user))
             => req'[w].resp = "notfound" /\ req'[w].pc = "done"]_vars

\* after a failed verification the same order was checked out (cod)
CheckoutAfterFailedPayment ==
    \E w1, w2 \in Workers :
        /\ req[w1].view = "paymenthandler" /\ req[w1].pc = "done"
        /\ req[w1].resp = "payment_failed"
        /\ req[w2].view = "checkout" /\ req[w2].pc = "done"
        /\ req[w2].resp = "order_success"
        /\ req[w2].order.id = req[w1].order.id
        /\ req[w2].user = req[w1].user
        /\ orders[req[w1].order.id].completed

\* ---- C7: a callback with a valid signature (the gateway client not
\* raising) that found the user's open order sets completed = True on that
\* order and writes nothing else; any step of a paymenthandler request whose
\* order is already completed changes no order and no item, and a request
\* arriving for a completed order is answered NotFound.
ValidCallbackCompletesOnce ==
    [][\A w \in Workers :
          /\ (/\ req[w].pc = "verify" /\ req'[w].pc = "done"
              /\ VerifyPaymentSignature(req[w].cb) /\ ~req'[w].raised)
             => /\ req'[w].resp = "order_success"
                /\ DOMAIN orders' = DOMAIN orders
                /\ orders'[req[w].order.id].completed
                /\ \A o \in DOMAIN orders \ {req[w].order.id} : orders'[o] = orders[o]
                /\ items' = items
          /\ (/\ StepBy(w) /\ req'[w].view = "paymenthandler"
              /\ req'[w].arg \in DOMAIN orders
              /\ orders[req'[w].arg].completed)
             => /\ orders' = orders /\ items' = items
                /\ (started' # started /\ req'[w].method # "GET"
                      => req'[w].resp = "notfound")]_vars

\* a first callback completed the order, a second one for it was a no-op
SecondCallbackNotFound ==
    \E w1, w2 \in Workers :
        /\ req[w1].view = "paymenthandler" /\ req[w1].pc = "done"
        /\ req[w1].resp = "order_success"
        /\ req[w2].view = "paymenthandler" /\ req[w2].pc = "done"
        /\ req[w2].resp = "notfound"
        /\ req[w2].arg = req[w1].arg /\ req[w2].user = req[w1].user
        /\ orders[req[w1].arg].completed

\* ---- C8: a step of a storefront request of user u changes, creates or
\* deletes no order of another user and no item of another user's order;
\* remove_from_cart and update_cart_quantity with another user's item id and
\* paymenthandler (POST) with another user's order id are answered NotFound.
NoCrossUserMutation ==
    [][\A w \in Workers :
          (StepBy(w) /\ req'[w].view \in Views) =>
             LET u == req'[w].user IN
             /\ \A o \in DOMAIN orders : orders[o].user # u =>
                   o \in DOMAIN orders' /\ orders'[o] = orders[o]
             /\ \A o \in DOMAIN orders' : orders'[o].user # u => o \in DOMAIN orders
             /\ \A i \in DOMAIN items : Owner(i) # u =>
                   i \in DOMAIN items' /\ items'[i] = items[i]
             /\ \A i \in DOMAIN items' : Owner(i)' # u => i \in DOMAIN items
             /\ (/\ started' # started
                 /\ req'[w].view \in {"remove_from_cart", "update_cart_quantity"}
                 /\ u \in Users
                 /\ req'[w].arg \in DOMAIN items /\ Owner(req'[w].arg) # u)
                => req'[w].resp = "notfound" /\ req'[w].pc = "done"
             /\ (/\ started' # started /\ req'[w].view = "paymenthandler"
                 /\ u \in Users /\ req'[w].method # "GET"
                 /\ req'[w].arg \in DOMAIN orders /\ orders[req'[w].arg].user # u)
                => req'[w].resp = "notfound" /\ req'[w].pc = "done"]_vars

\* a user's remove_from_cart of another user's item was answered NotFound and
\* the item is still there
ForeignRemoveRefused ==
    \E w \in Workers :
        /\ req[w].view = "remove_from_cart" /\ req[w].pc = "done"
        /\ req[w].resp = "notfound" /\ req[w].user \in Users
        /\ req[w].arg \in DOMAIN items
        /\ Owner(req[w].arg) \in Users \ {req[w].user}
        /\ ~orders[items[req[w].arg].order].completed

\* ---- C9: every OrderItem has quantity >= 1 in every reachable state; the
\* save of update_cart_quantity never deletes a row, with action "decrease"
\* it stores max(1, q - 1) for the quantity q the request read, with an
\* explicit integer n it stores max(1, n) ("0" and "-2" give 1, "2" gives 2,
\* "+3" gives 3); the only step that deletes an item is the delete of
\* remove_from_cart.
QuantityAtLeastOne == \A i \in DOMAIN items : items[i].quantity >= 1

QuantityClampedAtOne ==
    /\ []QuantityAtLeastOne
    /\ [][/\ \A w \in Workers :
               (req[w].pc = "item_save" /\ req'[w].pc # "item_save") =>
                  LET i == req[w].item.id
                      q == req[w].item.quantity IN
                  /\ DOMAIN items \subseteq DOMAIN items'
                  /\ i \in DOMAIN items'
                  /\ (req[w].qty = NoQty /\ req[w].action = "decrease"
                        => items'[i].quantity = IF q > 1 THEN q - 1 ELSE 1)
                  /\ (req[w].qty \in {<<"0">>, <<"-", "2">>} => items'[i].quantity = 1)
                  /\ (req[w].qty = <<"2">> => items'[i].quantity = 2)
                  /\ (req[w].qty = <<"+", "3">> => items'[i].quantity = 3)
          /\ ~(DOMAIN items \subseteq DOMAIN items') =>
                \E w \in Workers :
                    /\ req[w].view = "remove_from_cart"
                    /\ req[w].pc = "item_delete"
                    /\ req'[w].pc # "item_delete"]_vars

\* "decrease" on the item of quantity 1 left it at 1, and it is still there
DecreaseClamped ==
    \E w \in Workers :
        /\ started = 1 /\ q0 = 1
        /\ req[w].view = "update_cart_quantity" /\ req[w].pc = "done"
        /\ req[w].resp = "ok"
        /\ req[w].qty = NoQty /\ req[w].action = "decrease"
        /\ req[w].item.id \in DOMAIN items
        /\ items[req[w].item.id].quantity = 1

\* ---- C10: the save of an update_cart_quantity request whose explicit
\* quantity is not an integer ("", "ab", "1.5") stores the quantity the
\* request read, whichever action came with it, touches no other row and is
\* answered with the normal success response; when no other request changed
\* the row in between, the store is exactly as it was.
NonIntegerQuantityIgnored ==
    [][\A w \in Workers :
          /\ (/\ req[w].pc = "item_save" /\ req'[w].pc # "item_save"
              /\ req[w].qty \in NonIntegers)
             => LET i == req[w].item.id IN
                /\ req'[w].pc \in {"cart_count", "done"}
                /\ orders' = orders
                /\ i \in DOMAIN items'
                /\ items'[i].quantity = req[w].item.quantity
                /\ \A j \in DOMAIN items \ {i} :
                      j \in DOMAIN items' /\ items'[j] = items[j]
                /\ (i \in DOMAIN items /\ items[i].quantity = req[w].item.quantity
                      => items' = items)
          /\ (/\ StepBy(w) /\ req'[w].pc = "done"
              /\ req'[w].view = "update_cart_quantity"
              /\ req'[w].qty \in NonIntegers)
             => req'[w].resp = "ok"]_vars

\* a request with quantity "1.5" and action "increase" was answered normally
\* and the quantity is what it was
NonIntegerWithActionAnswered ==
    \E w \in Workers :
        /\ started = 1 /\ q0 >= 1
        /\ req[w].view = "update_cart_quantity" /\ req[w].pc = "done"
        /\ req[w].resp = "ok"
        /\ req[w].qty = <<"1", ".", "5">> /\ req[w].action = "increase"
        /\ req[w].item.id \in DOMAIN items
        /\ items[req[w].item.id].quantity = q0

\* the effective price of the specification: the sale price when there is
\* one, the regular price otherwise
effective_price(p) ==
    IF products[p].sale_price = <<>> THEN products[p].regular_price
    ELSE products[p].sale_price[1]

\* the sum over the items of order o of quantity x effective price
LineSum(o) ==
    SumOver([i \in OrderItems(o) |-> items[i].quantity * effective_price(items[i].product)],
            OrderItems(o))

\* ---- C11: in every reachable state the total_price of every order is the
\* sum over its items of quantity x effective price (sale price when not
\* null, else regular price), 0 for an order without items, and
\* get_total_price of an item is its quantity x effective price; the total a
\* cart payload carries is that sum.
TotalIsSumOfLines ==
    /\ [](/\ \A o \in DOMAIN orders :
               /\ total_price(o) = LineSum(o)
               /\ (OrderItems(o) = {} => total_price(o) = 0)
          /\ \A i \in DOMAIN items :
               get_total_price(i) = items[i].quantity * effective_price(items[i].product))
    /\ [][\A w \in Workers :
             (req[w].pc = "cart_total" /\ req'[w].pc = "done")
                => req'[w].total_price = LineSum(req[w].item.order)]_vars

\* a payload carried the total of an order with a line at its sale price of
\* 0.00 (the regular price is not 0) and a line of a product without one
TotalOfSaleAndRegularLines ==
    \E w \in Workers :
        /\ req[w].view = "add_to_cart" /\ req[w].pc = "done" /\ req[w].resp = "ok"
        /\ req[w].total_price = total_price(req[w].item.order)
        /\ req[w].total_price > 0
        /\ \E i, j \in OrderItems(req[w].item.order) :
              /\ products[items[i].product].sale_price = <<0>>
              /\ products[items[i].product].regular_price # 0
              /\ products[items[j].product].sale_price = <<>>

\* ---- C12: a checkout POST with payment_method = cod that arrives when the
\* user has an open order is never refused or failed: it finds the order and
\* its save answers with the order-success redirect, sets completed = True
\* on that order and changes nothing else (no other order, no item, no
\* quantity, so the total_price of the order is what it was before).
CodCheckoutAlwaysSucceeds ==
    [][\A w \in Workers :
          /\ (/\ started' # started /\ StepBy(w)
              /\ req'[w].view = "checkout" /\ req'[w].user \in Users
              /\ req'[w].method = "POST" /\ req'[w].payment_method = "cod"
              /\ OpenOrders(req'[w].user) # {})
             => req'[w].pc = "order_save" /\ req'[w].order.id \in OpenOrders(req'[w].user)
          /\ (req[w].pc = "order_save" /\ req'[w].pc # "order_save")
             => LET o == req[w].order.id IN
                /\ req'[w].pc = "done" /\ req'[w].resp = "order_success"
                /\ DOMAIN orders' = DOMAIN orders
                /\ orders'[o] = [orders[o] EXCEPT !.completed = TRUE]
                /\ \A x \in DOMAIN orders \ {o} : orders'[x] = orders[x]
                /\ items' = items /\ products' = products
                /\ total_price(o)' = total_price(o)]_vars

\* ---- C13: the order lookup of a cart or add_to_cart request that finds
\* more than one open order of the user does not fail: it takes the
\* earliest-created open order, deletes the user's other open orders (as
\* get_or_create_open_order of store/utils.py would) and leaves the user
\* with exactly one open order.
CartRepairsDuplicateOrders ==
    [][\A w \in Workers :
          LET u == req'[w].user IN
          (/\ StepBy(w)
           /\ \/ started' # started /\ req'[w].view = "cart" /\ u \in Users
              \/ req[w].pc = "get_order"
           /\ Cardinality(OpenOrders(u)) > 1)
          => /\ req'[w].resp # "error"
             /\ req'[w].order.id = RepairKeeps(u)
             /\ orders' = RepairedOrders(u)
             /\ Cardinality({o \in DOMAIN orders' :
                                orders'[o].user = u /\ ~orders'[o].completed}) = 1]_vars

\* ---- C14: no step of a storefront request changes or deletes an item of
\* an order that is completed, or attaches a new item to one, however an
\* add_to_cart overlaps a checkout or a paymenthandler of the same user; a
\* remove_from_cart or update_cart_quantity arriving for an item of a
\* completed order is answered NotFound.
CompletedOrderItemsFrozen ==
    [][\A w \in Workers :
          (StepBy(w) /\ req'[w].view \in Views) =>
             /\ \A i \in DOMAIN items :
                   orders[items[i].order].completed =>
                      i \in DOMAIN items' /\ items'[i] = items[i]
             /\ \A i \in DOMAIN items' \ DOMAIN items :
                   ~orders[items'[i].order].completed
             /\ (/\ started' # started
                 /\ req'[w].view \in {"remove_from_cart", "update_cart_quantity"}
                 /\ req'[w].user \in Users
                 /\ req'[w].arg \in DOMAIN items
                 /\ orders[items[req'[w].arg].order].completed)
                => req'[w].resp = "notfound" /\ req'[w].pc = "done"]_vars

\* ---- C15: a checkout request (GET, or POST with any payment_method) that
\* arrives when the user has no open order is answered NotFound at once, and
\* no order or item is created, completed or changed by it.
CheckoutWithoutOrderNotFound ==
    [][\A w \in Workers :
          (/\ started' # started /\ StepBy(w)
           /\ req'[w].view = "checkout" /\ req'[w].user \in Users
           /\ OpenOrders(req'[w].user) = {})
          => /\ req'[w].pc = "done" /\ req'[w].resp = "notfound"
             /\ req'[w].order = NoOrder
             /\ orders' = orders /\ items' = items
             /\ nextOrderId' = nextOrderId /\ nextItemId' = nextItemId]_vars

\* checkouts of every method were refused for a user whose only order is
\* completed, and that order is as it was
CheckoutRefusedWithoutOpenOrder ==
    \E w1, w2 \in Workers :
        /\ req[w1].view = "checkout" /\ req[w1].pc = "done" /\ req[w1].resp = "notfound"
        /\ req[w1].method = "GET"
        /\ req[w2].view = "checkout" /\ req[w2].pc = "done" /\ req[w2].resp = "notfound"
        /\ req[w2].method = "POST" /\ req[w2].payment_method = "cod"
        /\ req[w2].user = req[w1].user
        /\ OpenOrders(req[w1].user) = {}
        /\ \E o \in DOMAIN orders : orders[o].user = req[w1].user /\ orders[o].completed
        /\ orders = orders0

\* the two requests of the behaviour were staff toggles of the same order,
\* one after the other: the second read the flag the first had written
TwoTogglesInARow(w1, w2) ==
    /\ w1 # w2
    /\ started = 2
    /\ req[w1].view = "order_toggle_completed" /\ req[w2].view = "order_toggle_completed"
    /\ req[w1].pc = "done" /\ req[w2].pc = "done"
    /\ req[w1].resp = "ok" /\ req[w2].resp = "ok"
    /\ req[w1].arg = req[w2].arg
    /\ req[w1].order.completed # req[w2].order.completed

\* ---- C16: the staff toggle of an existing order goes through whatever the
\* flag is; its save stores the negation of the flag it read on that order
\* and changes nothing else (no other order, no item, no product); after two
\* toggles of an order in a row the flag is the original one.
ToggleNegatesOnlyTheFlag ==
    /\ [](\A w1, w2 \in Workers :
             TwoTogglesInARow(w1, w2) =>
                orders[req[w1].arg].completed = orders0[req[w1].arg].completed)
    /\ [][\A w \in Workers :
             /\ (/\ started' # started /\ StepBy(w)
                 /\ req'[w].view = "order_toggle_completed" /\ req'[w].user = Staff
                 /\ req'[w].arg \in DOMAIN orders)
                => req'[w].pc = "toggle_save"
             /\ (req[w].pc = "toggle_save" /\ req'[w].pc # "toggle_save")
                => LET o == req[w].order.id IN
                   /\ req'[w].pc = "done" /\ req'[w].resp = "ok"
                   /\ DOMAIN orders' = DOMAIN orders
                   /\ orders'[o].completed = ~req[w].order.completed
                   /\ (orders[o].completed = req[w].order.completed
                         => orders'[o].completed = ~orders[o].completed)
                   /\ orders'[o].user = orders[o].user
                   /\ \A x \in DOMAIN orders \ {o} : orders'[x] = orders[x]
                   /\ items' = items /\ products' = products]_vars

\* a completed order was toggled twice in a row and is completed again,
\* with the items it had
ToggledTwiceRestored ==
    \E w1, w2 \in Workers :
        /\ TwoTogglesInARow(w1, w2)
        /\ orders0[req[w1].arg].completed
        /\ orders[req[w1].arg].completed
        /\ OrderItems(req[w1].arg) # {}

\* ---- C17: the amount a razorpay checkout sends to the gateway and puts in
\* the payment page is the integer part of total_price x 100 of the order it
\* looked up, computed from the items and prices at that moment; prices
\* having two decimal places, nothing is cut off and the amount is the sum
\* over the items of quantity x effective price in minor units; the step
\* writes nothing, the order stays as it is (open).
PaymentAmountIsTotalInMinorUnits ==
    [][\A w \in Workers :
          (req[w].pc = "gateway_order" /\ req'[w].pc # "gateway_order")
          => LET o == req[w].order.id
                 scaled == total_price(o) * 100 IN
             /\ req'[w].pc = "done"
             /\ (~req'[w].raised => req'[w].resp = "payment_page")
             /\ IF scaled >= 0
                THEN req'[w].amount * 100 <= scaled /\ scaled < (req'[w].amount + 1) * 100
                ELSE req'[w].amount * 100 >= scaled /\ scaled > (req'[w].amount - 1) * 100
             /\ req'[w].amount = LineSum(o)
             /\ orders' = orders /\ items' = items /\ products' = products]_vars

\* a payment page was rendered for an order with a line priced 2.50: the
\* amount has a fraction of the major unit, and the order is still open
PaymentPageForFractionalTotal ==
    \E w \in Workers :
        /\ req[w].view = "checkout" /\ req[w].pc = "done"
        /\ req[w].resp = "payment_page"
        /\ req[w].amount = LineSum(req[w].order.id)
        /\ req[w].amount > 0 /\ req[w].amount % 100 # 0
        /\ req[w].order.id \in OpenOrders(req[w].user)

\* ---- C18: in every reachable state the effective price of every product
\* is >= 0, whatever the staff entered in the product create and update
\* forms, and so the total_price of every order is >= 0.
PricesNeverNegative ==
    /\ \A p \in DOMAIN products : effective_price(p) >= 0
    /\ \A o \in DOMAIN orders : total_price(o) >= 0

\* the sum of the quantities of the items of order o (0 when it has none)
QuantitySum(o) ==
    SumOver([i \in OrderItems(o) |-> items[i].quantity], OrderItems(o))

\* ---- C19: when add_to_cart, remove_from_cart or update_cart_quantity
\* answers with the cart payload (requests handled one at a time), its write
\* is in the store (the item created with quantity 1 or incremented by 1,
\* deleted, or holding the new quantity) and the payload describes the order
\* as it is then: cart_count is the sum of the quantities of the order's
\* items, 0 for an order without items, and total_price is its total_price.
PayloadDescribesOrderAfterWrite ==
    [][\A w \in Workers :
          (req[w].pc = "cart_total" /\ req'[w].pc = "done")
          => LET o == req[w].item.order
                 i == req[w].item.id IN
             /\ req'[w].resp = "ok"
             /\ req'[w].cart_count = QuantitySum(o)
             /\ (OrderItems(o) = {} => req'[w].cart_count = 0)
             /\ req'[w].total_price = LineSum(o)
             /\ (req[w].view = "add_to_cart" =>
                   /\ i \in OrderItems(o)
                   /\ items[i].quantity =
                         IF req[w].created THEN 1 ELSE req[w].item.quantity + 1)
             /\ (req[w].view = "remove_from_cart" => i \notin DOMAIN items)
             /\ (req[w].view = "update_cart_quantity" =>
                   i \in OrderItems(o) /\ items[i].quantity = req[w].item.quantity)]_vars

\* the payload of an add_to_cart that incremented the item counted the new
\* quantity, and the payload of the remove_from_cart that followed described
\* the empty order
PayloadAfterIncrementAndRemove ==
    \E w1, w2 \in Workers :
        /\ started = 2 /\ q0 >= 1
        /\ req[w1].view = "add_to_cart" /\ req[w1].pc = "done" /\ req[w1].resp = "ok"
        /\ ~req[w1].created /\ req[w1].item.quantity = q0
        /\ req[w1].cart_count = q0 + 1
        /\ req[w1].total_price = (q0 + 1) * effective_price(req[w1].product)
        /\ req[w2].view = "remove_from_cart" /\ req[w2].pc = "done" /\ req[w2].resp = "ok"
        /\ req[w2].ajax /\ req[w2].item.id = req[w1].item.id
        /\ OrderItems(req[w2].item.order) = {}
        /\ req[w2].cart_count = 0 /\ req[w2].total_price = 0

\* the step of worker w is the order lookup of a cart or add_to_cart request
OrderLookupBy(w) ==
    /\ StepBy(w)
    /\ \/ started' # started /\ req'[w].view = "cart" /\ req'[w].user \in Users
       \/ req[w].pc = "get_order"

\* ---- C20: with requests handled one at a time, the order lookup of a cart
\* or add_to_cart request of a user without an open order is followed by the
\* creation of exactly one order, open and of that user; with one open order
\* the lookup returns it and the request creates none; no other step of a
\* storefront request creates an order; the item of an add_to_cart is
\* attached to (or incremented in) the order the request found or created,
\* which is open: after a checkout completed the user's order that is a
\* fresh order, not the completed one.
OpenOrderCreatedLazily ==
    [][\A w \in Workers :
          LET u == req'[w].user IN
          /\ (OrderLookupBy(w) /\ OpenOrders(u) = {})
             => req'[w].pc = "create_order" /\ orders' = orders
          /\ (OrderLookupBy(w) /\ Cardinality(OpenOrders(u)) = 1)
             => /\ req'[w].pc # "create_order" /\ orders' = orders
                /\ OpenOrders(u) = {req'[w].order.id}
          /\ (req[w].pc = "create_order" /\ StepBy(w))
             => /\ OpenOrders(u) = {}
                /\ DOMAIN orders' = DOMAIN orders \cup {nextOrderId}
                /\ nextOrderId \notin DOMAIN orders
                /\ orders'[nextOrderId] = [user |-> u, completed |-> FALSE]
                /\ \A o \in DOMAIN orders : orders'[o] = orders[o]
                /\ req'[w].order.id = nextOrderId
                /\ req'[w].pc \in {"done", "item_get"}
          /\ (StepBy(w) /\ req[w].pc # "create_order")
             => DOMAIN orders' = DOMAIN orders
          /\ (req[w].pc \in {"item_create", "item_update"} /\ StepBy(w))
             => /\ OpenOrders(u) = {req[w].order.id}
                /\ req'[w].item.order = req[w].order.id
                /\ req'[w].item.id \in DOMAIN items'
                /\ items'[req'[w].item.id].order = req[w].order.id]_vars

\* a cod checkout completed the user's order and the add_to_cart that came
\* next created a new order and put its item there; the completed order
\* holds what it held
AddAfterCheckoutUsesFreshOrder ==
    \E w1, w2 \in Workers :
        /\ started = 2
        /\ req[w1].view = "checkout" /\ req[w1].pc = "done"
        /\ req[w1].resp = "order_success"
        /\ req[w2].view = "add_to_cart" /\ req[w2].pc = "done" /\ req[w2].resp = "ok"
        /\ req[w2].user = req[w1].user /\ req[w2].created
        /\ req[w2].order.id = nextOrderId - 1
        /\ req[w2].order.id \notin DOMAIN orders0
        /\ req[w2].order.id # req[w1].order.id
        /\ orders[req[w1].order.id].completed
        /\ OpenOrders(req[w2].user) = {req[w2].order.id}
        /\ OrderItems(req[w2].order.id) = {req[w2].item.id}
        /\ \A i \in OrderItems(req[w1].order.id) : items[i].quantity = q0
        /\ OrderItems(req[w1].order.id) # {}

\* the step of worker w is the save of a paymenthandler request whose
\* callback verified: it completes the order of the request
CompletesByPayment(w) ==
    /\ req[w].view = "paymenthandler" /\ req[w].pc = "verify"
    /\ req'[w].pc = "done" /\ req'[w].resp = "order_success"

\* gateway order k is the one the latest razorpay checkout of store order o
\* created
LatestSession(k, o) ==
    /\ k \in DOMAIN rp_orders
    /\ rp_orders[k].order = o
    /\ \A j \in DOMAIN rp_orders : rp_orders[j].order = o => j <= k

\* ---- C21: whenever paymenthandler completes an order on the callback of
\* the gateway order that the (latest) checkout of this order created, the
\* amount of that gateway order equals the order's total (in paise) at the
\* moment of completion, whatever add_to_cart, remove_from_cart and
\* update_cart_quantity requests of the owner ran in between.
PaidAmountIsTotalAtCompletion ==
    [][\A w \in Workers :
          (/\ CompletesByPayment(w)
           /\ LatestSession(req[w].cb.rp_order, req[w].order.id))
          => rp_orders[req[w].cb.rp_order].amount = amount_paise(req[w].order.id)']_vars

\* ---- C22: paymenthandler completes order o only on a callback that refers
\* to a gateway order which the checkout of o created; a signed pair of a
\* gateway order created for another store order never completes o.
PaymentCompletesOnlyItsOwnSession ==
    [][\A w \in Workers :
          CompletesByPayment(w)
          => /\ req[w].cb.rp_order \in DOMAIN rp_orders
             /\ rp_orders[req[w].cb.rp_order].order = req[w].order.id]_vars

\* ---- C23: the total_price of a completed order never changes while the
\* order stays completed: no later request, a staff edit of a product's
\* regular_price or sale_price included, makes it differ from what it was.
CompletedTotalNeverChanges ==
    [][\A o \in DOMAIN orders :
          (orders[o].completed /\ o \in DOMAIN orders' /\ orders'[o].completed)
          => total_price(o)' = total_price(o)]_vars

\* worker w has answered a request of user u that adds one to the quantity
\* of item i: update_cart_quantity with action = increase (and no quantity
\* parameter), or add_to_cart for the product of the item
IncrementDone(w, u, i) ==
    /\ req[w].pc = "done" /\ req[w].resp = "ok" /\ req[w].user = u
    /\ req[w].item.id = i /\ ~req[w].created
    /\ \/ /\ req[w].view = "update_cart_quantity" /\ req[w].method = "POST"
          /\ req[w].action = "increase" /\ req[w].qty = NoQty
       \/ req[w].view = "add_to_cart"

\* ---- C24: when item 1 (quantity q0, in the open order of its owner) is
\* the target of the only two requests, both of its owner, two
\* update_cart_quantity 'increase' requests or one of them and one
\* add_to_cart of the item's product, the item ends with quantity q0 + 2
\* in every interleaving.
IncreaseKeepsBothIncrements ==
    \A w1, w2 \in Workers, u \in Users :
        (/\ w1 # w2 /\ started = 2 /\ q0 > 0
         /\ req[w1].view = "update_cart_quantity"
         /\ IncrementDone(w1, u, 1) /\ IncrementDone(w2, u, 1))
        => 1 \in DOMAIN items /\ items[1].quantity = q0 + 2
====
